---------------------------- MODULE Spec2Model ----------------------------
(***************************************************************************)
(* LazyScroll: a model of the gesture classifier of the sidebar            *)
(* (sidebar/sidebar.js), of the command router and the two delivery        *)
(* backends of the background service worker (src/background.js) and of    *)
(* the in-page receiver (the content script).                              *)
(*                                                                         *)
(* Coordinates are the detector's normalised coordinates in hundredths     *)
(* (0.40 is 40), and so is the deadzone.  The code compares Euclidean      *)
(* distances, dist(a,b) > dist(c,d) * 1.15; both sides are non-negative,   *)
(* so the comparison is the one of the squares, 400 * dist2(a,b) >         *)
(* 529 * dist2(c,d), which is what the model computes (1.15^2 = 529/400).  *)
(***************************************************************************)
EXTENDS Integers, Sequences, FiniteSets, TLC

VARIABLES
    \* ---- sidebar/sidebar.js
    isTracking,      \* let isTracking
    isScrolling,     \* let isScrolling
    animationId,     \* let animationId: "null", "pending" (the request it names
                     \* has not fired) or "stale" (it has fired or was never live)
    otherFrames,     \* pending detectFrame callbacks that animationId does not name
    startsPending,   \* startTracking calls suspended in their awaits
    modelsReady,     \* handLandmarker and faceLandmarker are both set
    videoLive,       \* video.videoWidth is non-zero (a stream is playing)
    currentHand,     \* let currentHand
    currentFace,     \* let currentFace
    scrollSpeed,     \* let scrollSpeed
    deadzone,        \* let deadzone (hundredths)
    invertScroll,    \* let invertScroll
    outbox,          \* SCROLL_COMMAND messages handed to chrome.runtime.sendMessage
                     \* and not yet received by the background's listener
    \* ---- src/background.js
    debuggerAttached,\* const debuggerAttached = new Set()
    disp,            \* the onMessage handler's calls: where each one is suspended,
                     \* its locals (message, tab, i) and what it has done so far
    received,        \* SCROLL_COMMAND messages the listener has been called with
    \* ---- the browser
    tabOpen,         \* tabOpen[t]: tab t exists
    session,         \* tabs a chrome.debugger session of this extension is attached to
    now,             \* the clock, in milliseconds
    keyHeld          \* keyHeld[t]: the key of the last key event tab t received
                     \* when that event was a keyDown, "none" otherwise

sidebarVars == <<isTracking, isScrolling, animationId, otherFrames, startsPending,
                 modelsReady, videoLive, currentHand, currentFace,
                 scrollSpeed, deadzone, invertScroll>>

routerVars == <<debuggerAttached, disp, received, tabOpen, session, now, keyHeld>>

vars == <<sidebarVars, outbox, routerVars>>

-----------------------------------------------------------------------------
(* Bounds of the model *)

MaxOutbox == 1      \* messages in flight between sidebar and background
MaxStarts == 2      \* startTracking calls suspended at the same time
MaxLoops == 1       \* pending detectFrame callbacks animationId does not name
MaxCmds == 2        \* SCROLL_COMMAND messages the background receives
MaxTabs == 2        \* browser tabs
MaxClock == 1       \* clock steps
ClockStep == 100    \* milliseconds per clock step
MaxSystemCmds == 1  \* SCROLL_COMMAND messages received when the sidebar runs too
MaxSpeed == 30      \* the highest scrollSpeed the slider is moved to

-----------------------------------------------------------------------------
(* Landmarks and poses *)

LIP_CENTER_INDEX == 13
INDEX_TIP == 8
INDEX_PIP == 6
INDEX_MCP == 5

\* An absent landmark (undefined) and a present one.
NoLandmark == [ok |-> FALSE, x |-> 0, y |-> 0]
Pt(px, py) == [ok |-> TRUE, x |-> px, y |-> py]

\* A pose is null (present = FALSE) or maps the consumed indices to landmarks.
NoHand == [present |-> FALSE, lm |-> [i \in {INDEX_TIP, INDEX_PIP, INDEX_MCP} |-> NoLandmark]]
NoFace == [present |-> FALSE, lm |-> [i \in {LIP_CENTER_INDEX} |-> NoLandmark]]

MkHand(tip, pip, mcp) ==
    [present |-> TRUE,
     lm |-> [i \in {INDEX_TIP, INDEX_PIP, INDEX_MCP} |->
               IF i = INDEX_TIP THEN tip ELSE IF i = INDEX_PIP THEN pip ELSE mcp]]

MkFace(lip) == [present |-> TRUE, lm |-> [i \in {LIP_CENTER_INDEX} |-> lip]]

\* The poses a detection tick may deliver.
Tips == {NoLandmark, Pt(50, 26), Pt(50, 27), Pt(55, 27), Pt(50, 74)}
Pips == {NoLandmark, Pt(50, 30)}
Mcps == {NoLandmark, Pt(50, 50)}
Lips == {NoLandmark, Pt(50, 40)}

Hands == {NoHand} \cup {MkHand(t, p, m) : t \in Tips, p \in Pips, m \in Mcps}
Faces == {NoFace} \cup {MkFace(l) : l \in Lips}

\* The settings the sliders and the checkbox can set.
Speeds == {5, 20}
Deadzones == {5, 14}
Directions == {"up", "down"}

\* The commands the router is given.
Commands == {[direction |-> "up", speed |-> 5], [direction |-> "down", speed |-> 20]}

-----------------------------------------------------------------------------
(* sidebar/sidebar.js: the classifier *)

\* dist(p1, p2), squared.
dist2(p1, p2) == (p1.x - p2.x) * (p1.x - p2.x) + (p1.y - p2.y) * (p1.y - p2.y)

\* Variant: the 1.15 margin is dropped.
isPointed_NoMargin(indexTip, indexPip, indexMcp) ==
    dist2(indexTip, indexMcp) > dist2(indexPip, indexMcp)

\* const isPointed = tipToMcp > pipToMcp * 1.15
isPointed(indexTip, indexPip, indexMcp) ==
    400 * dist2(indexTip, indexMcp) > 529 * dist2(indexPip, indexMcp)

Abs(n) == IF n < 0 THEN -n ELSE n

NoDecision == [scroll |-> FALSE, direction |-> "none", speed |-> 0]

\* if (!currentHand || !currentFace || !isTracking)
posesPresent(hand, face, tracking) == hand.present /\ face.present /\ tracking

\* Variant: the lip landmark is not checked.
landmarksPresent_NoLip(indexTip, indexPip, indexMcp, lipCenter) ==
    indexTip.ok /\ indexPip.ok /\ indexMcp.ok

\* if (!indexTip || !indexPip || !indexMcp || !lipCenter): the negation
landmarksPresent(indexTip, indexPip, indexMcp, lipCenter) ==
    indexTip.ok /\ indexPip.ok /\ indexMcp.ok /\ lipCenter.ok

\* Variant: the deadzone boundary scrolls.
outsideDeadzone_Inclusive(absGap, dz) == absGap >= dz

\* if (absGap > deadzone)
outsideDeadzone(absGap, dz) == absGap > dz

\* Variant: the image's y axis is taken to grow upward.
rawDirection_Swapped(gap) == IF gap < 0 THEN "up" ELSE "down"

\* const direction = gap > 0 ? 'up' : 'down'
rawDirection(gap) == IF gap > 0 THEN "up" ELSE "down"

\* Variant: inversion flips 'up' only.
actualDirection_OneWay(direction, invert) ==
    IF invert THEN "down" ELSE direction

\* const actualDirection = invertScroll ? (direction === 'up' ? 'down' : 'up') : direction
actualDirection(direction, invert) ==
    IF invert THEN (IF direction = "up" THEN "down" ELSE "up") ELSE direction

\* The scroll decision of processTrackingResults: NoDecision on every path
\* that ends in stopScrolling(), the arguments of sendScrollCommand otherwise.
Classify(hand, face, tracking, dz, invert, speed) ==
    IF ~posesPresent(hand, face, tracking) THEN NoDecision
    ELSE
      LET indexTip == hand.lm[INDEX_TIP]
          indexPip == hand.lm[INDEX_PIP]
          indexMcp == hand.lm[INDEX_MCP]
          lipCenter == face.lm[LIP_CENTER_INDEX]
      IN IF ~landmarksPresent(indexTip, indexPip, indexMcp, lipCenter) THEN NoDecision
         ELSE
           LET gap == lipCenter.y - indexTip.y
               absGap == Abs(gap)
           IN IF ~isPointed(indexTip, indexPip, indexMcp) THEN NoDecision
              ELSE IF outsideDeadzone(absGap, dz)
                   THEN [scroll |-> TRUE,
                         direction |-> actualDirection(rawDirection(gap), invert),
                         speed |-> speed]
                   ELSE NoDecision

\* sendScrollCommand(direction, speed): one message to the runtime channel.
sendScrollCommand(direction, speed) ==
    outbox' = Append(outbox, [type |-> "SCROLL_COMMAND", direction |-> direction, speed |-> speed])

\* Variant: a tick without a decision does not call stopScrolling().
processTrackingResults_KeepsScrolling(hand, face) ==
    LET d == Classify(hand, face, isTracking', deadzone, invertScroll, scrollSpeed)
    IN IF d.scroll
       THEN /\ Len(outbox) < MaxOutbox
            /\ isScrolling' = TRUE
            /\ sendScrollCommand(d.direction, d.speed)
       ELSE UNCHANGED <<isScrolling, outbox>>

\* processTrackingResults(), reading the poses the tick has just stored.
processTrackingResults(hand, face) ==
    LET d == Classify(hand, face, isTracking', deadzone, invertScroll, scrollSpeed)
    IN IF d.scroll
       THEN /\ Len(outbox) < MaxOutbox
            /\ isScrolling' = TRUE
            /\ sendScrollCommand(d.direction, d.speed)
       ELSE /\ isScrolling' = FALSE          \* stopScrolling()
            /\ UNCHANGED outbox

\* The body of detectFrame() past its guard: detect, process, draw, and
\* request the next frame.
detectFrameBody(hand, face) ==
    /\ currentHand' = hand
    /\ currentFace' = face
    /\ processTrackingResults(hand, face)
    /\ animationId' = "pending"

\* function stopTracking()
stopTracking ==
    /\ isTracking' = FALSE
    /\ isScrolling' = FALSE
    /\ animationId' = "null"         \* cancelAnimationFrame(animationId), when set
    /\ videoLive' = FALSE            \* video.srcObject = null
    /\ currentHand' = NoHand
    /\ currentFace' = NoFace
    /\ UNCHANGED <<otherFrames, startsPending, modelsReady,
                   scrollSpeed, deadzone, invertScroll, outbox, routerVars>>

\* startTracking() up to its first await (initializeModels or getUserMedia).
startTrackingCall ==
    /\ startsPending < MaxStarts
    /\ startsPending' = startsPending + 1
    /\ UNCHANGED <<isTracking, isScrolling, animationId, otherFrames, modelsReady,
                   videoLive, currentHand, currentFace,
                   scrollSpeed, deadzone, invertScroll, outbox, routerVars>>

\* initializeModels() at load succeeds.
InitializeModels ==
    /\ ~modelsReady
    /\ modelsReady' = TRUE
    /\ UNCHANGED <<isTracking, isScrolling, animationId, otherFrames, startsPending,
                   videoLive, currentHand, currentFace,
                   scrollSpeed, deadzone, invertScroll, outbox, routerVars>>

\* startBtn click listener
ClickStartBtn ==
    IF isTracking THEN stopTracking ELSE startTrackingCall

\* placeholder click listener (camera permission granted)
ClickPlaceholder ==
    /\ ~isTracking
    /\ startTrackingCall

\* startTracking() resumes after its awaits with the models and the camera:
\* isTracking = true and the first detectFrame() call, in the same turn.
StartTrackingResume(hand, face) ==
    /\ startsPending > 0
    /\ startsPending' = startsPending - 1
    /\ modelsReady' = TRUE
    /\ videoLive' = TRUE
    /\ isTracking' = TRUE
    /\ otherFrames' = otherFrames + (IF animationId = "pending" THEN 1 ELSE 0)
    /\ otherFrames' <= MaxLoops
    /\ detectFrameBody(hand, face)
    /\ UNCHANGED <<scrollSpeed, deadzone, invertScroll, routerVars>>

\* startTracking() ends without tracking: the models failed to load
\* (return) or the camera call threw (catch).
StartTrackingFail ==
    /\ startsPending > 0
    /\ startsPending' = startsPending - 1
    /\ \E loaded \in {modelsReady, TRUE} : modelsReady' = loaded
    /\ UNCHANGED <<isTracking, isScrolling, animationId, otherFrames,
                   videoLive, currentHand, currentFace,
                   scrollSpeed, deadzone, invertScroll, outbox, routerVars>>

\* The frame request animationId names fires: detectFrame().
DetectFrame(hand, face) ==
    /\ animationId = "pending"
    /\ IF ~isTracking \/ ~modelsReady \/ ~videoLive
       THEN /\ animationId' = "stale"
            /\ UNCHANGED <<isTracking, isScrolling, currentHand, currentFace, outbox>>
       ELSE /\ UNCHANGED isTracking
            /\ detectFrameBody(hand, face)
    /\ UNCHANGED <<otherFrames, startsPending, modelsReady, videoLive,
                   scrollSpeed, deadzone, invertScroll, routerVars>>

\* A frame request of another loop, which animationId no longer names, fires.
DetectFrameOther(hand, face) ==
    /\ otherFrames > 0
    /\ IF ~isTracking \/ ~modelsReady \/ ~videoLive
       THEN /\ otherFrames' = otherFrames - 1
            /\ UNCHANGED <<isTracking, isScrolling, animationId,
                           currentHand, currentFace, outbox>>
       ELSE /\ otherFrames' = otherFrames - 1 + (IF animationId = "pending" THEN 1 ELSE 0)
            /\ UNCHANGED isTracking
            /\ detectFrameBody(hand, face)
    /\ UNCHANGED <<startsPending, modelsReady, videoLive,
                   scrollSpeed, deadzone, invertScroll, routerVars>>

\* scrollSpeedSlider input listener
SetScrollSpeed(s) ==
    /\ scrollSpeed' = s
    /\ UNCHANGED <<isTracking, isScrolling, animationId, otherFrames, startsPending,
                   modelsReady, videoLive, currentHand, currentFace,
                   deadzone, invertScroll, outbox, routerVars>>

\* deadzoneSlider input listener
SetDeadzone(d) ==
    /\ deadzone' = d
    /\ UNCHANGED <<isTracking, isScrolling, animationId, otherFrames, startsPending,
                   modelsReady, videoLive, currentHand, currentFace,
                   scrollSpeed, invertScroll, outbox, routerVars>>

\* invertScrollCheckbox change listener
SetInvertScroll(b) ==
    /\ invertScroll' = b
    /\ UNCHANGED <<isTracking, isScrolling, animationId, otherFrames, startsPending,
                   modelsReady, videoLive, currentHand, currentFace,
                   scrollSpeed, deadzone, outbox, routerVars>>

SidebarInit ==
    /\ isTracking = FALSE
    /\ isScrolling = FALSE
    /\ animationId = "null"
    /\ otherFrames = 0
    /\ startsPending = 0
    /\ modelsReady = FALSE
    /\ videoLive = FALSE
    /\ currentHand = NoHand
    /\ currentFace = NoFace
    /\ scrollSpeed = 20
    /\ deadzone = 5
    /\ invertScroll = FALSE

-----------------------------------------------------------------------------
(* The browser: tabs and their addresses *)

Tabs == 1..MaxTabs
Cmds == 1..MaxCmds

\* An address is the sequence of its parts: scheme, path, extension, fragment.
URL_HTML == <<"https://", "a.org/index", ".html">>
URL_PDF == <<"https://", "a.org/DOC", ".PDF">>
URL_PDF_FRAGMENT == <<"https://", "a.org/doc", ".pdf", "#page=2">>
URL_CHROME == <<"chrome://", "extensions">>
URL_EXTENSION == <<"chrome-extension://", "lazyscroll/permissions/permissions", ".html">>

Urls == {URL_HTML, URL_PDF, URL_PDF_FRAGMENT, URL_CHROME, URL_EXTENSION}

\* What the addresses are, whatever the router makes of them.
PdfDocuments == {URL_PDF, URL_PDF_FRAGMENT}
InternalSchemes == {"chrome://", "chrome-extension://"}
IsPdfDocument(url) == url \in PdfDocuments
IsInternalPage(url) == url[1] \in InternalSchemes
IsNormalPage(url) == ~IsPdfDocument(url) /\ ~IsInternalPage(url)

\* Content scripts run in web pages only.
HostsContentScript(url) == url[1] = "https://"

\* const [tab] = await chrome.tabs.query(...): no tab, or an open tab and
\* the address it shows at that moment.
NoTab == [id |-> 0, url |-> <<>>]
TabResults == {NoTab} \cup {[id |-> t, url |-> u] : t \in {x \in Tabs : tabOpen[x]}, u \in Urls}

-----------------------------------------------------------------------------
(* src/background.js: the command router and the Synthetic-Key backend *)

\* String.prototype.toLowerCase, part by part
lowerPart(part) ==
    CASE part = ".PDF" -> ".pdf"
      [] part = "a.org/DOC" -> "a.org/doc"
      [] OTHER -> part

toLowerCase(url) == [k \in DOMAIN url |-> lowerPart(url[k])]

\* String.prototype.startsWith / endsWith
startsWith(url, prefix) == Len(url) > 0 /\ url[1] = prefix
endsWith(url, suffix) == Len(url) > 0 /\ url[Len(url)] = suffix

\* Variant: the chrome:// test is lost.
isChromePage_Never(url) == FALSE

\* tab.url?.startsWith('chrome://')
isChromePage(url) == startsWith(url, "chrome://")

\* tab.url?.toLowerCase().endsWith('.pdf')
isPdfUrl(url) == endsWith(toLowerCase(url), ".pdf")

Max(a, b) == IF a > b THEN a ELSE b

\* Variant: the number of presses falls as the speed grows.
keyPresses_Inverted(speed) == Max(1, 3 - speed \div 10)

\* const keyPresses = Math.max(1, Math.floor(speed / 10))
keyPresses(speed) == Max(1, speed \div 10)

\* const key = direction === 'up' ? 'ArrowUp' : 'ArrowDown'
keyOf(direction) == IF direction = "up" THEN "ArrowUp" ELSE "ArrowDown"

\* const keyCode = direction === 'up' ? 38 : 40
keyCodeOf(direction) == IF direction = "up" THEN 38 ELSE 40

\* A call of the onMessage handler that has not happened yet.
IdleCall ==
    [pc |-> "idle",
     direction |-> "none", speed |-> 0,                  \* message
     tab |-> NoTab,                                      \* const tab
     kTabId |-> 0, kDirection |-> "none", kSpeed |-> 0,  \* sendKeyboardEvent's arguments
     key |-> "none", keyCode |-> 0,                      \* const key, const keyCode
     i |-> 0,                                            \* let i
     csTries |-> 0,      \* chrome.tabs.sendMessage calls made
     csDelivered |-> 0,  \* SCROLL messages a page has answered
     scrollCalls |-> 0,  \* window.scrollBy calls the message has caused
     scrollTop |-> 0,    \* the sum of their top offsets
     replies |-> 0,      \* sendResponse({ success: true }) calls in the page
     skCalls |-> 0,      \* sendKeyboardEvent calls made
     skTime |-> 0,       \* when sendKeyboardEvent was called
     attachCalls |-> 0,  \* chrome.debugger.attach calls made
     keyDowns |-> 0,     \* keyDown events the tab has received
     keyUps |-> 0,       \* keyUp events the tab has received
     acted |-> FALSE,    \* the page has scrolled or a key event has reached the tab
     skResult |-> "none",\* what sendKeyboardEvent returned
     backends |-> <<>>,  \* the backends invoked, in the order of their calls
     interruptedAt |-> "none", \* the await sendKeyboardEvent was suspended in when
                         \* a tab-close or detach event for its tab was processed
     result |-> "none"]  \* what sendToContentScript resolved to

\* sendToContentScript returns value: its promise resolves and the
\* then-callback of the handler is queued.
returnValue(c, value) == [c EXCEPT !.pc = "respond", !.result = value]

\* sendKeyboardEvent returns value to sendToContentScript, which returns it.
returnFromKeyboard(c, value) == returnValue([c EXCEPT !.skResult = value], value)

\* sendKeyboardEvent(tabId, direction, speed) up to its first await: the attach
\* call when the tab is not in debuggerAttached, the first keyDown otherwise.
sendKeyboardEvent(c, tabId, direction, speed) ==
    [c EXCEPT !.kTabId = tabId, !.kDirection = direction, !.kSpeed = speed,
              !.key = keyOf(direction), !.keyCode = keyCodeOf(direction),
              !.i = 0,
              !.skCalls = @ + 1,
              !.skTime = now,
              !.backends = Append(@, "Synthetic-Key"),
              !.attachCalls = IF tabId \in debuggerAttached THEN @ ELSE @ + 1,
              !.pc = IF tabId \in debuggerAttached THEN "keyDown" ELSE "attach"]

\* chrome.tabs.sendMessage(tab.id, message), awaited
sendMessage(c) ==
    [c EXCEPT !.csTries = @ + 1,
              !.backends = Append(@, "Content-Script"),
              !.pc = "sendMessage"]

\* Variant: without an active tab the dispatch reports success.
selectBackend_NoTabSucceeds(c, tab) ==
    LET c1 == [c EXCEPT !.tab = tab]
    IN IF tab.id = 0 THEN returnValue(c1, "true")
       ELSE IF isChromePage(tab.url) THEN sendKeyboardEvent(c1, tab.id, c.direction, c.speed)
       ELSE IF isPdfUrl(tab.url) THEN sendKeyboardEvent(c1, tab.id, c.direction, c.speed)
       ELSE sendMessage(c1)

\* Variant: a tab that is in debuggerAttached is sent key events at once.
selectBackend_ReusesSession(c, tab) ==
    LET c1 == [c EXCEPT !.tab = tab]
    IN IF tab.id = 0 THEN returnValue(c1, "false")
       ELSE IF isChromePage(tab.url) \/ isPdfUrl(tab.url) \/ tab.id \in debuggerAttached
            THEN sendKeyboardEvent(c1, tab.id, c.direction, c.speed)
       ELSE sendMessage(c1)

\* sendToContentScript after getActiveTab: the backend selection.
selectBackend(c, tab) ==
    LET c1 == [c EXCEPT !.tab = tab]
    IN IF tab.id = 0 THEN returnValue(c1, "false")
       ELSE IF isChromePage(tab.url) THEN sendKeyboardEvent(c1, tab.id, c.direction, c.speed)
       ELSE IF isPdfUrl(tab.url) THEN sendKeyboardEvent(c1, tab.id, c.direction, c.speed)
       ELSE sendMessage(c1)

\* The sidebar calls sendScrollCommand(direction, speed).
SidebarSend(direction, speed) ==
    /\ Len(outbox) < MaxOutbox
    /\ received + Len(outbox) < MaxCmds
    /\ sendScrollCommand(direction, speed)
    /\ UNCHANGED <<sidebarVars, routerVars>>

\* chrome.runtime.onMessage listener: a SCROLL_COMMAND starts
\* sendToContentScript, which awaits getActiveTab().
OnMessage ==
    /\ outbox # <<>>
    /\ received < MaxCmds
    /\ Head(outbox).type = "SCROLL_COMMAND"
    /\ received' = received + 1
    /\ disp' = [disp EXCEPT ![received + 1] =
                  [IdleCall EXCEPT !.pc = "query",
                                   !.direction = Head(outbox).direction,
                                   !.speed = Head(outbox).speed]]
    /\ outbox' = Tail(outbox)
    /\ UNCHANGED <<sidebarVars, debuggerAttached, tabOpen, session, now, keyHeld>>

\* chrome.tabs.query resolves.
QueryResolve(d, tab) ==
    /\ disp[d].pc = "query"
    /\ tab \in TabResults
    /\ disp' = [disp EXCEPT ![d] = selectBackend(disp[d], tab)]
    /\ UNCHANGED <<sidebarVars, outbox, debuggerAttached, received, tabOpen, session, now, keyHeld>>

\* chrome.tabs.query rejects: sendToContentScript's promise rejects, and the
\* handler has no callback for that.
QueryReject(d) ==
    /\ disp[d].pc = "query"
    /\ disp' = [disp EXCEPT ![d].pc = "rejected"]
    /\ UNCHANGED <<sidebarVars, outbox, debuggerAttached, received, tabOpen, session, now, keyHeld>>

\* The content script.  What one listener does with a message: the
\* window.scrollBy calls, their top offset, and the sendResponse calls.
\* const scrollAmount = message.direction === 'up' ? -message.speed : message.speed
scrollAmount(message) ==
    IF message.direction = "up" THEN -message.speed ELSE message.speed

\* The first chrome.runtime.onMessage listener the script registers.
onMessageFirst(message) ==
    IF message.type = "SCROLL"
    THEN [calls |-> 1, top |-> scrollAmount(message), replies |-> 1]
    ELSE [calls |-> 0, top |-> 0, replies |-> 0]

\* The second chrome.runtime.onMessage listener the script registers.
onMessageSecond(message) ==
    IF message.type = "SCROLL"
    THEN [calls |-> 1, top |-> scrollAmount(message), replies |-> 1]
    ELSE [calls |-> 0, top |-> 0, replies |-> 0]

\* A message arrives in the page: every registered listener is called.
contentScript(message) ==
    LET a == onMessageFirst(message)
        b == onMessageSecond(message)
    IN [calls |-> a.calls + b.calls, top |-> a.top + b.top,
        replies |-> a.replies + b.replies]

\* The message sendToContentScript is called with (background.js:108-112).
scrollMessage(c) == [type |-> "SCROLL", direction |-> c.direction, speed |-> c.speed]

\* The page receives the message of call c and answers.
pageReceives(c) ==
    LET r == contentScript(scrollMessage(c))
    IN [c EXCEPT !.csDelivered = @ + 1,
                 !.acted = (@ \/ r.calls > 0),
                 !.scrollCalls = @ + r.calls,
                 !.scrollTop = @ + r.top,
                 !.replies = @ + r.replies]

\* Variant: the try block does not return, and the keyboard path runs too.
SendMessageResolve_FallsThrough(d) ==
    /\ disp[d].pc = "sendMessage"
    /\ tabOpen[disp[d].tab.id]
    /\ HostsContentScript(disp[d].tab.url)
    /\ disp' = [disp EXCEPT ![d] =
                  sendKeyboardEvent(pageReceives(@),
                                    disp[d].tab.id, disp[d].direction, disp[d].speed)]
    /\ UNCHANGED <<sidebarVars, outbox, debuggerAttached, received, tabOpen, session, now, keyHeld>>

\* Variant: a page that answers is recorded in debuggerAttached.
SendMessageResolve_Records(d) ==
    /\ disp[d].pc = "sendMessage"
    /\ tabOpen[disp[d].tab.id]
    /\ HostsContentScript(disp[d].tab.url)
    /\ disp' = [disp EXCEPT ![d] = returnValue(pageReceives(@), "true")]
    /\ debuggerAttached' = debuggerAttached \cup {disp[d].tab.id}
    /\ UNCHANGED <<sidebarVars, outbox, received, tabOpen, session, now, keyHeld>>

\* chrome.tabs.sendMessage resolves: the page's receiver has answered.
SendMessageResolve(d) ==
    /\ disp[d].pc = "sendMessage"
    /\ tabOpen[disp[d].tab.id]
    /\ HostsContentScript(disp[d].tab.url)
    /\ disp' = [disp EXCEPT ![d] = returnValue(pageReceives(@), "true")]
    /\ UNCHANGED <<sidebarVars, outbox, debuggerAttached, received, tabOpen, session, now, keyHeld>>

\* Variant: the catch block only reports the failure.
SendMessageReject_NoFallback(d) ==
    /\ disp[d].pc = "sendMessage"
    /\ disp' = [disp EXCEPT ![d] = returnValue(@, "false")]
    /\ UNCHANGED <<sidebarVars, outbox, debuggerAttached, received, tabOpen, session, now, keyHeld>>

\* chrome.tabs.sendMessage rejects: the catch block calls sendKeyboardEvent.
SendMessageReject(d) ==
    /\ disp[d].pc = "sendMessage"
    /\ disp' = [disp EXCEPT ![d] =
                  sendKeyboardEvent(@, disp[d].tab.id, disp[d].direction, disp[d].speed)]
    /\ UNCHANGED <<sidebarVars, outbox, debuggerAttached, received, tabOpen, session, now, keyHeld>>

\* chrome.debugger.attach resolves: the tab joins debuggerAttached and the
\* loop issues its first keyDown.
AttachResolve(d) ==
    /\ disp[d].pc = "attach"
    /\ tabOpen[disp[d].kTabId]
    /\ disp[d].kTabId \notin session
    /\ session' = session \cup {disp[d].kTabId}
    /\ debuggerAttached' = debuggerAttached \cup {disp[d].kTabId}
    /\ disp' = [disp EXCEPT ![d].pc = "keyDown"]
    /\ UNCHANGED <<sidebarVars, outbox, received, tabOpen, now, keyHeld>>

\* Variant: the catch block leaves debuggerAttached alone.
keyboardFailed_KeepsEntry(d) ==
    /\ disp' = [disp EXCEPT ![d] = returnFromKeyboard(@, "false")]
    /\ UNCHANGED <<sidebarVars, outbox, debuggerAttached, received, tabOpen, session, now, keyHeld>>

\* The catch block of sendKeyboardEvent.
keyboardFailed(d) ==
    /\ debuggerAttached' = debuggerAttached \ {disp[d].kTabId}
    /\ disp' = [disp EXCEPT ![d] = returnFromKeyboard(@, "false")]
    /\ UNCHANGED <<sidebarVars, outbox, received, tabOpen, session, now, keyHeld>>

\* chrome.debugger.attach rejects.
AttachReject(d) ==
    /\ disp[d].pc = "attach"
    /\ keyboardFailed(d)

\* Input.dispatchKeyEvent keyDown resolves: the tab has received the event.
KeyDownResolve(d) ==
    /\ disp[d].pc = "keyDown"
    /\ disp[d].kTabId \in session
    /\ disp' = [disp EXCEPT ![d] = [@ EXCEPT !.keyDowns = @ + 1, !.acted = TRUE, !.pc = "keyUp"]]
    /\ keyHeld' = [keyHeld EXCEPT ![disp[d].kTabId] = disp[d].key]
    /\ UNCHANGED <<sidebarVars, outbox, debuggerAttached, received, tabOpen, session, now>>

\* Input.dispatchKeyEvent keyDown rejects.
KeyDownReject(d) ==
    /\ disp[d].pc = "keyDown"
    /\ keyboardFailed(d)

\* Input.dispatchKeyEvent keyUp resolves: i++, then the next keyDown or
\* return true.
KeyUpResolve(d) ==
    /\ disp[d].pc = "keyUp"
    /\ disp[d].kTabId \in session
    /\ disp' = [disp EXCEPT ![d] =
                  LET c == [@ EXCEPT !.keyUps = @ + 1, !.i = @ + 1]
                  IN IF c.i < keyPresses(c.kSpeed)
                     THEN [c EXCEPT !.pc = "keyDown"]
                     ELSE returnFromKeyboard(c, "true")]
    /\ keyHeld' = [keyHeld EXCEPT ![disp[d].kTabId] = "none"]
    /\ UNCHANGED <<sidebarVars, outbox, debuggerAttached, received, tabOpen, session, now>>

\* Input.dispatchKeyEvent keyUp rejects.
KeyUpReject(d) ==
    /\ disp[d].pc = "keyUp"
    /\ keyboardFailed(d)

\* .then(success => sendResponse({ success })): the call is over, and of its
\* record only the value it answered with and whether it acted are kept.
Respond(d) ==
    /\ disp[d].pc = "respond"
    /\ disp' = [disp EXCEPT ![d] = [IdleCall EXCEPT !.pc = "done", !.result = disp[d].result,
                                   !.acted = disp[d].acted]]
    /\ UNCHANGED <<sidebarVars, outbox, debuggerAttached, received, tabOpen, session, now, keyHeld>>

\* The sendKeyboardEvent calls for tab t that are suspended while a listener
\* runs keep the await they are in on record.
interrupt(t) ==
    [d \in Cmds |->
        IF disp[d].pc \in {"attach", "keyDown", "keyUp"} /\ disp[d].kTabId = t
        THEN [disp[d] EXCEPT !.interruptedAt = disp[d].pc]
        ELSE disp[d]]

\* Variant: no onRemoved listener.
TabRemoved_NoCleanup(t) ==
    /\ tabOpen[t]
    /\ tabOpen' = [tabOpen EXCEPT ![t] = FALSE]
    /\ session' = session \ {t}
    /\ disp' = interrupt(t)
    /\ keyHeld' = [keyHeld EXCEPT ![t] = "none"]
    /\ UNCHANGED <<sidebarVars, outbox, debuggerAttached, received, now>>

\* chrome.tabs.onRemoved listener: the tab closes, which ends its session.
TabRemoved(t) ==
    /\ tabOpen[t]
    /\ tabOpen' = [tabOpen EXCEPT ![t] = FALSE]
    /\ session' = session \ {t}
    /\ debuggerAttached' = debuggerAttached \ {t}
    /\ disp' = interrupt(t)
    /\ keyHeld' = [keyHeld EXCEPT ![t] = "none"]     \* the page is gone
    /\ UNCHANGED <<sidebarVars, outbox, received, now>>

\* chrome.debugger.onDetach listener: the session of tab t ends.
DebuggerDetached(t) ==
    /\ t \in session
    /\ session' = session \ {t}
    /\ debuggerAttached' = debuggerAttached \ {t}
    /\ disp' = interrupt(t)
    /\ UNCHANGED <<sidebarVars, outbox, received, tabOpen, now, keyHeld>>

\* Time passes.
AdvanceClock ==
    /\ now < MaxClock * ClockStep
    /\ now' = now + ClockStep
    /\ UNCHANGED <<sidebarVars, outbox, debuggerAttached, disp, received, tabOpen, session, keyHeld>>

RouterInit ==
    /\ debuggerAttached = {}
    /\ disp = [d \in Cmds |-> IdleCall]
    /\ received = 0
    /\ tabOpen = [t \in Tabs |-> TRUE]
    /\ session = {}
    /\ now = 0
    /\ keyHeld = [t \in Tabs |-> "none"]

Init ==
    /\ SidebarInit
    /\ outbox = <<>>
    /\ RouterInit

\* A detection tick: detectFrame() run past its guard, from a frame request
\* or from startTracking().
Tick(hand, face) ==
    \/ StartTrackingResume(hand, face)
    \/ DetectFrame(hand, face)
    \/ DetectFrameOther(hand, face)

GestureNext ==
    \/ InitializeModels
    \/ ClickStartBtn
    \/ ClickPlaceholder
    \/ StartTrackingFail
    \/ \E hand \in Hands, face \in Faces : Tick(hand, face)
    \/ \E s \in Speeds : SetScrollSpeed(s)
    \/ \E d \in Deadzones : SetDeadzone(d)
    \/ \E b \in BOOLEAN : SetInvertScroll(b)

SpecGesture == Init /\ [][GestureNext]_vars

\* The router with any command the sidebar may send.
Next ==
    \/ \E c \in Commands : SidebarSend(c.direction, c.speed)
    \/ OnMessage
    \/ \E d \in Cmds :
         \/ \E tab \in TabResults : QueryResolve(d, tab)
         \/ QueryReject(d)
         \/ SendMessageResolve(d)
         \/ SendMessageReject(d)
         \/ AttachResolve(d)
         \/ AttachReject(d)
         \/ KeyDownResolve(d)
         \/ KeyDownReject(d)
         \/ KeyUpResolve(d)
         \/ KeyUpReject(d)
         \/ Respond(d)
    \/ \E t \in Tabs : TabRemoved(t) \/ DebuggerDetached(t)

Spec == Init /\ [][Next]_vars

\* The router with the clock.
TimedNext == Next \/ AdvanceClock

SpecTimed == Init /\ [][TimedNext]_vars

\* The Synthetic-Key path at every speed of the slider: commands of any
\* speed for a tab that shows a PDF.
SliderSpeeds == 1..MaxSpeed
KeyTabResults == {[id |-> t, url |-> URL_PDF] : t \in {x \in Tabs : tabOpen[x]}}

SpeedNext ==
    \/ \E s \in SliderSpeeds : SidebarSend("down", s)
    \/ OnMessage
    \/ \E d \in Cmds :
         \/ \E tab \in KeyTabResults : QueryResolve(d, tab)
         \/ AttachResolve(d)
         \/ AttachReject(d)
         \/ KeyDownResolve(d)
         \/ KeyDownReject(d)
         \/ KeyUpResolve(d)
         \/ KeyUpReject(d)
         \/ Respond(d)

SpecSpeed == Init /\ [][SpeedNext]_vars

\* The sidebar and the router together: the tick loop sends the commands.
\* The camera shows no hand, or a hand pointing above the lips.
TrackedHands == {NoHand, MkHand(Pt(50, 26), Pt(50, 30), Pt(50, 50))}
TrackedFaces == {MkFace(Pt(50, 40))}

SystemNext ==
    \/ InitializeModels
    \/ ClickStartBtn
    \/ ClickPlaceholder
    \/ StartTrackingFail
    \/ \E hand \in TrackedHands, face \in TrackedFaces : Tick(hand, face)
    \/ (received < MaxSystemCmds /\ OnMessage)
    \/ \E d \in 1..MaxSystemCmds :
         \/ \E tab \in TabResults : QueryResolve(d, tab)
         \/ QueryReject(d)
         \/ SendMessageResolve(d)
         \/ SendMessageReject(d)
         \/ AttachResolve(d)
         \/ AttachReject(d)
         \/ KeyDownResolve(d)
         \/ KeyDownReject(d)
         \/ KeyUpResolve(d)
         \/ KeyUpReject(d)
         \/ Respond(d)
    \/ \E t \in Tabs : TabRemoved(t) \/ DebuggerDetached(t)

SpecSystem == Init /\ [][SystemNext]_vars

-----------------------------------------------------------------------------
(* Properties of the classifier, checked under SpecGesture *)

\* This step ran processTrackingResults on the poses now stored.
TickDone == isTracking' /\ Tick(currentHand', currentFace')

tipOf(hand) == hand.lm[INDEX_TIP]
pipOf(hand) == hand.lm[INDEX_PIP]
mcpOf(hand) == hand.lm[INDEX_MCP]
lipOf(face) == face.lm[LIP_CENTER_INDEX]

\* Every landmark the classifier consumes is there.
FullSignal(hand, face) ==
    /\ hand.present /\ face.present
    /\ tipOf(hand).ok /\ pipOf(hand).ok /\ mcpOf(hand).ok /\ lipOf(face).ok

\* tipToMcp > pipToMcp * 1.15, on the squares
PoseExtended(hand) ==
    400 * dist2(tipOf(hand), mcpOf(hand)) > 529 * dist2(pipOf(hand), mcpOf(hand))

\* lip.y - indexTip.y
GapOf(hand, face) == lipOf(face).y - tipOf(hand).y

Opposite(direction) == IF direction = "up" THEN "down" ELSE "up"

SentOne == Len(outbox') = Len(outbox) + 1 /\ SubSeq(outbox', 1, Len(outbox)) = outbox
SentNone == outbox' = outbox
LastSent == outbox'[Len(outbox')]

\* C1: a detection tick in which the hand pose or the face pose is absent, or
\* one of hand[8], hand[6], hand[5], face[13] is missing, sends no
\* SCROLL_COMMAND, whatever the settings are.
C1_MissingSignalSendsNothing ==
    [][(TickDone /\ ~FullSignal(currentHand', currentFace')) => SentNone]_vars

\* C1 witness: tracking, a tick has stored a hand with all three finger
\* landmarks and a face without its lip landmark, and nothing was sent.
C1_Witness ==
    /\ isTracking /\ currentHand.present /\ currentFace.present
    /\ tipOf(currentHand).ok /\ pipOf(currentHand).ok /\ mcpOf(currentHand).ok
    /\ ~lipOf(currentFace).ok
    /\ ~isScrolling /\ outbox = <<>>

\* C2: a tick whose pose has tipToMcp <= pipToMcp * 1.15 makes no scroll
\* decision (isScrolling is false after it) and sends no SCROLL_COMMAND,
\* whatever the gap, the deadzone and invertScroll are.
C2_NotPointedSendsNothing ==
    [][(/\ TickDone
        /\ FullSignal(currentHand', currentFace')
        /\ ~PoseExtended(currentHand'))
       => (SentNone /\ ~isScrolling')]_vars

\* C2 witness: a tick at the boundary tipToMcp = pipToMcp * 1.15, with the
\* fingertip outside the deadzone, has sent nothing.
C2_Witness ==
    /\ isTracking /\ FullSignal(currentHand, currentFace)
    /\ 400 * dist2(tipOf(currentHand), mcpOf(currentHand))
          = 529 * dist2(pipOf(currentHand), mcpOf(currentHand))
    /\ Abs(GapOf(currentHand, currentFace)) > deadzone
    /\ ~isScrolling /\ outbox = <<>>

\* C3: a tick with |lip.y - indexTip.y| <= deadzone (boundary included) makes
\* no scroll decision and sends nothing; a tick with a pointed finger and
\* |gap| > deadzone sends exactly one SCROLL_COMMAND.
C3_DeadzoneGate ==
    [][(TickDone /\ FullSignal(currentHand', currentFace'))
       => /\ (Abs(GapOf(currentHand', currentFace')) <= deadzone)
               => (SentNone /\ ~isScrolling')
          /\ (/\ Abs(GapOf(currentHand', currentFace')) > deadzone
              /\ PoseExtended(currentHand'))
               => (SentOne /\ isScrolling')]_vars

\* C3 witness: a pointed finger exactly on the deadzone boundary, nothing sent.
C3_Witness ==
    /\ isTracking /\ FullSignal(currentHand, currentFace)
    /\ PoseExtended(currentHand)
    /\ Abs(GapOf(currentHand, currentFace)) = deadzone
    /\ ~isScrolling /\ outbox = <<>>

\* C4: inversion law.  What a tick does under the current invertScroll and
\* what the classifier decides for the same poses and settings with
\* invertScroll flipped: both decide or neither does, and when they decide
\* the directions are opposite and the speeds equal.
C4_InversionLaw ==
    [][TickDone =>
        LET flipped == Classify(currentHand', currentFace', TRUE,
                                deadzone, ~invertScroll, scrollSpeed)
        IN IF flipped.scroll
           THEN /\ SentOne
                /\ LastSent.direction = Opposite(flipped.direction)
                /\ flipped.direction \in Directions
                /\ LastSent.speed = flipped.speed
           ELSE SentNone]_vars

\* C4 witness: the fingertip is above the lips and the command sent by the
\* tick says 'down': the tick ran with invertScroll on.
C4_Witness ==
    /\ isTracking /\ isScrolling /\ FullSignal(currentHand, currentFace)
    /\ GapOf(currentHand, currentFace) > 0
    /\ Len(outbox) = 1 /\ outbox[1].direction = "down"

\* C5: with invertScroll off, a tick with a pointed finger outside the
\* deadzone sends 'up' exactly when the fingertip is above the lips
\* (lip.y - indexTip.y > 0) and 'down' otherwise, at the configured
\* scrollSpeed whatever the size of the gap.
C5_DirectionAndSpeed ==
    [][(/\ TickDone
        /\ FullSignal(currentHand', currentFace')
        /\ PoseExtended(currentHand')
        /\ Abs(GapOf(currentHand', currentFace')) > deadzone
        /\ ~invertScroll)
       => /\ SentOne
          /\ (LastSent.direction = "up") <=> (GapOf(currentHand', currentFace') > 0)
          /\ (LastSent.direction = "down") <=> (GapOf(currentHand', currentFace') <= 0)
          /\ LastSent.speed = scrollSpeed]_vars

\* C5 witness: invertScroll off, the fingertip below the lips, and the tick
\* has sent 'down' at a scrollSpeed that is not the default.
C5_Witness ==
    /\ isTracking /\ isScrolling /\ ~invertScroll
    /\ FullSignal(currentHand, currentFace)
    /\ GapOf(currentHand, currentFace) < 0
    /\ Len(outbox) = 1 /\ outbox[1].direction = "down"
    /\ scrollSpeed = 5 /\ outbox[1].speed = 5

\* C23: idle-state invariant.  After a call of processTrackingResults,
\* isScrolling is true exactly when the call sent a SCROLL_COMMAND, and it
\* sent one or none; a tick without a decision sends nothing and leaves
\* isScrolling false, a command sent carries the configured speed, and
\* stopTracking leaves isScrolling false.
C23_IdleState ==
    [][/\ TickDone
          => /\ SentOne \/ SentNone
             /\ isScrolling' <=> SentOne
             /\ ~Classify(currentHand', currentFace', TRUE,
                          deadzone, invertScroll, scrollSpeed).scroll
                  => (SentNone /\ ~isScrolling')
             /\ SentOne => (LastSent.speed = scrollSpeed /\ LastSent.speed > 0)
       /\ (isTracking /\ ~isTracking') => (~isScrolling' /\ SentNone)]_vars

\* C23 witness: an earlier tick has sent a command, and the tick after it
\* found no hand: tracking is on and isScrolling is false.
C23_Witness ==
    /\ isTracking /\ ~currentHand.present /\ currentFace.present
    /\ Len(outbox) = 1
    /\ ~isScrolling

\* The detectFrame callbacks requested and not yet run.
pendingFrames == (IF animationId = "pending" THEN 1 ELSE 0) + otherFrames

\* C24: at most one detection loop is live: at most one detectFrame callback
\* is pending, whatever the clicks were.
C24_OneLoop == pendingFrames <= 1

-----------------------------------------------------------------------------
(* Properties of the router, checked under Spec and SpecTimed *)

\* The calls whose active tab has been resolved to a tab, and are not over.
Routed == {d \in Cmds : disp[d].tab.id # 0 /\ disp[d].pc # "done"}

\* The calls that have returned their value and not yet answered.
Returned == {d \in Cmds : disp[d].pc = "respond"}

\* C6: a dispatch whose active tab is a PDF document never attempts the
\* Content-Script Backend (chrome.tabs.sendMessage) and invokes the
\* Synthetic-Key Backend directly, exactly once.
C6_PdfGoesDirect ==
    \A d \in Routed :
        IsPdfDocument(disp[d].tab.url) =>
            (disp[d].csTries = 0 /\ disp[d].skCalls = 1)

\* C7, as claimed: a dispatch whose active tab has an internal/privileged
\* address scheme never attempts the Content-Script Backend and invokes the
\* Synthetic-Key Backend directly, exactly once.
C7_InternalGoesDirect ==
    \A d \in Routed :
        IsInternalPage(disp[d].tab.url) =>
            (disp[d].csTries = 0 /\ disp[d].skCalls = 1)

\* C7, amended: a dispatch whose active tab's address starts with chrome://
\* never attempts the Content-Script Backend and invokes the Synthetic-Key
\* Backend directly, exactly once.
C7_ChromeGoesDirect ==
    \A d \in Routed :
        (disp[d].tab.url[1] = "chrome://") =>
            /\ disp[d].csTries = 0 /\ disp[d].csDelivered = 0
            /\ disp[d].skCalls = 1
            /\ disp[d].kTabId = disp[d].tab.id

\* C7 witness: a dispatch to a chrome:// page has returned without a
\* sendMessage call and after one sendKeyboardEvent call.
C7_Witness ==
    \E d \in Returned :
        /\ disp[d].tab.url = URL_CHROME
        /\ disp[d].csTries = 0 /\ disp[d].skCalls = 1
        /\ disp[d].result = "true"

\* C8: a dispatch to a normal page attempts the Content-Script Backend
\* first; if and only if that attempt fails, sendKeyboardEvent is invoked,
\* exactly once, in the same dispatch and for the same tab, direction and
\* speed, and the dispatch's outcome is that fallback's outcome.
C8_FallbackOnFailure ==
    \A d \in Routed :
        IsNormalPage(disp[d].tab.url) =>
            /\ disp[d].csTries = 1
            /\ disp[d].skCalls <= 1
            /\ (disp[d].pc = "sendMessage") => (disp[d].skCalls = 0)
            /\ (disp[d].pc # "sendMessage") =>
                   ((disp[d].csDelivered = 0) <=> (disp[d].skCalls = 1))
            /\ (disp[d].skCalls = 1) =>
                   /\ disp[d].kTabId = disp[d].tab.id
                   /\ disp[d].kDirection = disp[d].direction
                   /\ disp[d].kSpeed = disp[d].speed
            /\ (disp[d].pc = "respond") =>
                   IF disp[d].skCalls = 1
                   THEN disp[d].skResult \in {"true", "false"}
                        /\ disp[d].result = disp[d].skResult
                   ELSE disp[d].result = "true"

\* C8 witness: a dispatch to a normal page whose page message failed and
\* whose fallback failed too: it returns the fallback's false.
C8_Witness ==
    \E d \in Returned :
        /\ disp[d].tab.url = URL_HTML
        /\ disp[d].csTries = 1 /\ disp[d].csDelivered = 0
        /\ disp[d].skCalls = 1 /\ disp[d].skResult = "false"
        /\ disp[d].result = "false"

\* C9: a dispatch makes at most one Content-Script attempt and at most one
\* Synthetic-Key attempt (one sendKeyboardEvent call, one attach call), and
\* at most one of the two delivers: a page that has answered the SCROLL
\* message receives no key event from the same dispatch.
C9_NoRetryNoDoubleDelivery ==
    \A d \in Cmds :
        /\ disp[d].csTries <= 1
        /\ disp[d].skCalls <= 1
        /\ disp[d].attachCalls <= 1
        /\ disp[d].csDelivered <= 1
        /\ ~(disp[d].csDelivered > 0 /\ disp[d].skResult = "true")
        /\ (disp[d].csDelivered > 0) =>
               (disp[d].skCalls = 0 /\ disp[d].keyDowns = 0 /\ disp[d].keyUps = 0)

\* C9 witness: both backends were attempted, once each, and only the
\* Synthetic-Key Backend delivered.
C9_Witness ==
    \E d \in Returned :
        /\ disp[d].csTries = 1 /\ disp[d].csDelivered = 0
        /\ disp[d].skCalls = 1 /\ disp[d].attachCalls = 1
        /\ disp[d].skResult = "true" /\ disp[d].keyDowns >= 1

\* The class the router puts a tab in (background.js:81 and :87).
targetClass(url) ==
    IF isChromePage(url) THEN "internal-page"
    ELSE IF isPdfUrl(url) THEN "pdf"
    ELSE "normal-page"

\* The outcome of the first backend a dispatch has invoked, once it has one.
primaryOutcome(c) ==
    IF c.backends = <<>> THEN "none"
    ELSE IF c.backends[1] = "Content-Script"
         THEN (IF c.pc = "sendMessage" THEN "none"
               ELSE IF c.csDelivered > 0 THEN "success" ELSE "failure")
    ELSE (IF c.skResult = "true" THEN "success"
          ELSE IF c.skResult = "false" THEN "failure" ELSE "none")

\* The backend sequence of a class and a primary outcome.
backendSequence(class, outcome) ==
    IF class = "normal-page"
    THEN (IF outcome = "failure" THEN <<"Content-Script", "Synthetic-Key">>
          ELSE <<"Content-Script">>)
    ELSE <<"Synthetic-Key">>

\* C11: backend-selection determinism.  Two dispatches that have returned,
\* with the same target class and the same primary-backend outcome, have
\* invoked the same sequence of backends, whatever their direction and
\* speed, whatever debuggerAttached held and whatever ran before them; and
\* the sequence of every routed dispatch is the one its class and outcome fix.
C11_SelectionDeterministic ==
    /\ \A d1 \in Returned, d2 \in Returned :
          (/\ disp[d1].tab.id # 0 /\ disp[d2].tab.id # 0
           /\ targetClass(disp[d1].tab.url) = targetClass(disp[d2].tab.url)
           /\ primaryOutcome(disp[d1]) = primaryOutcome(disp[d2]))
          => disp[d1].backends = disp[d2].backends
    /\ \A d \in Routed :
          disp[d].backends =
              backendSequence(targetClass(disp[d].tab.url), primaryOutcome(disp[d]))

\* C11 witness: two dispatches to normal pages whose page message failed,
\* of different direction and speed, one that found the tab in
\* debuggerAttached and one that had to attach, with the same sequence.
C11_Witness ==
    \E d1 \in Returned, d2 \in Returned :
        /\ targetClass(disp[d1].tab.url) = "normal-page"
        /\ targetClass(disp[d2].tab.url) = "normal-page"
        /\ primaryOutcome(disp[d1]) = "failure"
        /\ primaryOutcome(disp[d2]) = "failure"
        /\ disp[d1].direction # disp[d2].direction
        /\ disp[d1].speed # disp[d2].speed
        /\ disp[d1].attachCalls = 1 /\ disp[d2].attachCalls = 0
        /\ disp[d1].backends = <<"Content-Script", "Synthetic-Key">>
        /\ disp[d2].backends = disp[d1].backends

\* C12: lifecycle cleanup under interleaving.  A tab in debuggerAttached is
\* open and has a session that an attach has established since the last
\* tab-close or detach event for it: the listeners remove the tab, and a
\* sendKeyboardEvent that resumes after the event adds it back only when
\* its attach succeeds on the tab as it is then.
C12_NoStaleEntry ==
    \A t \in debuggerAttached : tabOpen[t] /\ t \in session

\* C12 witness: the tab closed while sendKeyboardEvent was suspended in its
\* attach call; the call has resumed and returned, and the tab is not in
\* debuggerAttached.
C12_Witness ==
    \E d \in Returned :
        /\ disp[d].interruptedAt = "attach"
        /\ disp[d].attachCalls = 1 /\ disp[d].keyDowns = 0
        /\ ~tabOpen[disp[d].kTabId]
        /\ disp[d].kTabId \notin debuggerAttached
        /\ disp[d].skResult = "false"

\* The calls suspended inside sendKeyboardEvent for tab t.
InKeyboard(t) ==
    {d \in Cmds : disp[d].pc \in {"attach", "keyDown", "keyUp"} /\ disp[d].kTabId = t}

\* C13: no persistent failure state.  Whatever failures and events came
\* before, when sendKeyboardEvent is suspended in its attach call for a tab
\* that is open, and no other call is working on that tab, the attach can
\* succeed: no earlier failure has left a state in which it must fail.
C13_NoPersistentFailure ==
    \A d \in Cmds :
        (/\ disp[d].pc = "attach"
         /\ tabOpen[disp[d].kTabId]
         /\ InKeyboard(disp[d].kTabId) = {d})
        => ENABLED AttachResolve(d)

\* The effects call c has had on pages: scrollBy calls and key events.
effectsOf(c) == c.csDelivered + c.keyDowns + c.keyUps

\* C14: effects follow the order of the commands.  The listener is called
\* with the commands in the order the tick loop sent them, so call d1 < d2
\* handles the earlier command: d1 has no effect once d2 has had one.
C14_EffectsInOrder ==
    [][\A d1 \in Cmds, d2 \in Cmds :
          (d1 < d2 /\ disp[d2].acted) => ~(effectsOf(disp[d1]) < effectsOf(disp'[d1]))]_vars

\* C15: stale-result suppression.  While tracking is off (before and after
\* the step) the tick loop sends no SCROLL_COMMAND, and no call of the
\* router scrolls a page or sends a key event to a tab.
C15_NoEffectAfterStop ==
    [][(~isTracking /\ ~isTracking')
       => /\ Len(outbox') <= Len(outbox)
          /\ \A d \in Cmds : ~(effectsOf(disp[d]) < effectsOf(disp'[d]))]_vars

\* C16: failures are values.  No call of the handler ends with its promise
\* rejected, whatever browser call failed, and a call that answers
\* (sendResponse) answers with the boolean sendToContentScript resolved to.
C16_FailuresAreValues ==
    \A d \in Cmds :
        /\ disp[d].pc # "rejected"
        /\ (disp[d].pc \in {"respond", "done"}) => (disp[d].result \in {"true", "false"})

\* C17: when the active-tab query resolves to no tab, the dispatch returns
\* false in that step, with no backend invoked (no sendMessage, no
\* sendKeyboardEvent, no attach, no key event), and debuggerAttached and the
\* sessions are as they were.
C17_NoTabFailsQuietly ==
    [][\A d \in Cmds :
          (/\ disp[d].pc = "query"
           /\ disp'[d].pc \notin {"query", "rejected"}
           /\ disp'[d].tab.id = 0)
          => /\ disp'[d].pc = "respond"
             /\ disp'[d].result = "false"
             /\ disp'[d].backends = <<>>
             /\ disp'[d].csTries = 0 /\ disp'[d].skCalls = 0
             /\ disp'[d].attachCalls = 0 /\ disp'[d].keyDowns = 0
             /\ UNCHANGED <<debuggerAttached, session>>]_vars

\* C17 witness: a dispatch that found no active tab has returned false
\* without a backend, while a tab is in debuggerAttached.
C17_Witness ==
    \E d \in Returned :
        /\ disp[d].tab = NoTab
        /\ disp[d].result = "false"
        /\ disp[d].backends = <<>> /\ disp[d].attachCalls = 0
        /\ debuggerAttached # {}

\* C18: DeliveryState accuracy.  When no sendKeyboardEvent is suspended, the
\* tabs in debuggerAttached are the tabs this extension's debug session is
\* attached to.
C18_SetMatchesSessions ==
    (\A t \in Tabs : InKeyboard(t) = {}) => (debuggerAttached = session)

\* C19: attach is idempotent.  sendKeyboardEvent calls chrome.debugger.attach
\* only for a tab that has no session of this extension and no attach call
\* of it pending.
C19_AttachOnce ==
    [][\A d \in Cmds :
          (disp[d].pc # "attach" /\ disp'[d].pc = "attach")
          => /\ disp'[d].kTabId \notin session
             /\ \A e \in Cmds \ {d} :
                   ~(disp[e].pc = "attach" /\ disp[e].kTabId = disp'[d].kTabId)]_vars

\* C20: when the attach or a key-event command of a sendKeyboardEvent call
\* rejects, the tab is not in debuggerAttached afterwards, the call returns
\* false in that step, and it has issued no further attach or key-event
\* command: the remaining key presses are abandoned.
C20_FailureEndsCall ==
    [][\A d \in Cmds :
          (AttachReject(d) \/ KeyDownReject(d) \/ KeyUpReject(d))
          => /\ disp[d].kTabId \notin debuggerAttached'
             /\ disp'[d].pc = "respond"
             /\ disp'[d].skResult = "false" /\ disp'[d].result = "false"
             /\ disp'[d].attachCalls = disp[d].attachCalls
             /\ disp'[d].keyDowns = disp[d].keyDowns
             /\ disp'[d].keyUps = disp[d].keyUps
             /\ disp'[d].skCalls = 1]_vars

\* C20 witness: a call for two key presses whose second keyDown rejected
\* after the first press went through: it has returned false with one press
\* sent, and the tab is out of debuggerAttached.
C20_Witness ==
    \E d \in Returned :
        /\ keyPresses(disp[d].kSpeed) = 2
        /\ disp[d].attachCalls = 1
        /\ disp[d].keyDowns = 1 /\ disp[d].keyUps = 1
        /\ disp[d].skResult = "false" /\ disp[d].result = "false"
        /\ disp[d].kTabId \notin debuggerAttached

\* C21: a Synthetic-Key delivery (sendKeyboardEvent returned true) has
\* emitted exactly one keyDown and one keyUp whatever the speed, with key
\* ArrowUp (38) for 'up' and ArrowDown (40) for 'down'.
C21_OnePressPerDelivery ==
    \A d \in Returned :
        (disp[d].skResult = "true")
        => /\ disp[d].keyDowns = 1 /\ disp[d].keyUps = 1
           /\ (disp[d].kDirection = "up")
                 => (disp[d].key = "ArrowUp" /\ disp[d].keyCode = 38)
           /\ (disp[d].kDirection = "down")
                 => (disp[d].key = "ArrowDown" /\ disp[d].keyCode = 40)

\* C22: for a SCROLL message a page has received, the in-page receiver has
\* made exactly one window.scrollBy call, with top = -speed for 'up' and
\* +speed otherwise, and has replied; a message of another type makes none.
C22_OneScrollPerMessage ==
    /\ \A d \in Cmds :
          (disp[d].csDelivered = 1)
          => /\ disp[d].scrollCalls = 1
             /\ disp[d].scrollTop =
                    (IF disp[d].direction = "up" THEN -disp[d].speed ELSE disp[d].speed)
             /\ disp[d].replies >= 1
    /\ \A c \in Commands :
          contentScript([type |-> "SCROLL_COMMAND", direction |-> c.direction,
                         speed |-> c.speed]).calls = 0

\* C25: a dispatch the Content-Script Backend delivers makes no
\* chrome.debugger call (no attach, no key command) and leaves
\* debuggerAttached and the sessions as they are; a tab gets a session, and
\* enters debuggerAttached, only in a step of a dispatch that called
\* sendKeyboardEvent for that tab and was suspended in its attach.
C25_ContentScriptLeavesDebugger ==
    [][/\ \A d \in Cmds :
            (disp[d].csDelivered < disp'[d].csDelivered)
            => /\ UNCHANGED <<debuggerAttached, session>>
               /\ disp'[d].pc = "respond" /\ disp'[d].result = "true"
               /\ disp'[d].skCalls = 0 /\ disp'[d].attachCalls = 0
               /\ disp'[d].keyDowns = 0 /\ disp'[d].keyUps = 0
       /\ \A t \in Tabs :
            (t \in (session' \ session) \cup (debuggerAttached' \ debuggerAttached))
            => \E d \in Cmds :
                 /\ disp[d].pc = "attach" /\ disp'[d].pc = "keyDown"
                 /\ disp[d].skCalls = 1 /\ disp[d].kTabId = t
                 /\ disp[d].csDelivered = 0]_vars

\* C25 witness: a tab is in debuggerAttached, and a dispatch to a page on
\* that tab has been delivered by the content script without any
\* chrome.debugger call.
C25_Witness ==
    \E d \in Returned :
        /\ disp[d].csDelivered = 1 /\ disp[d].result = "true"
        /\ disp[d].attachCalls = 0 /\ disp[d].keyDowns = 0
        /\ disp[d].tab.id \in debuggerAttached

\* C26: the key events a tab receives alternate keyDown, keyUp, keyDown,
\* keyUp, ..., each keyUp with the key of the keyDown before it: a keyDown
\* reaches a tab whose last event was not a keyDown, and a keyUp reaches a
\* tab whose last event was the keyDown of the same key.
C26_KeysAlternate ==
    [][\A d \in Cmds :
          /\ (disp[d].keyDowns < disp'[d].keyDowns)
               => keyHeld[disp[d].kTabId] = "none"
          /\ (disp[d].keyUps < disp'[d].keyUps)
               => keyHeld[disp[d].kTabId] = disp[d].key]_vars

\* C27: a higher speed never gives fewer key presses.  Of two Synthetic-Key
\* deliveries, the one with the higher (or equal) speed has emitted at least
\* as many key presses, and every delivery has emitted at least one, also
\* for a speed below 10; a press is a keyDown and its keyUp.
C27_SpeedMonotone ==
    /\ \A d1 \in Returned, d2 \in Returned :
          (/\ disp[d1].skResult = "true" /\ disp[d2].skResult = "true"
           /\ disp[d1].kSpeed <= disp[d2].kSpeed)
          => disp[d1].keyDowns <= disp[d2].keyDowns
    /\ \A d \in Returned :
          (disp[d].skResult = "true")
          => (disp[d].keyDowns >= 1 /\ disp[d].keyUps = disp[d].keyDowns)

\* C27 witness: a delivery at a speed below 10 with one key press and a
\* delivery at a speed of 30 with three.
C27_Witness ==
    \E d1 \in Returned, d2 \in Returned :
        /\ disp[d1].skResult = "true" /\ disp[d2].skResult = "true"
        /\ disp[d1].kSpeed < 10 /\ disp[d1].keyDowns = 1
        /\ disp[d2].kSpeed >= 30 /\ disp[d2].keyDowns = 3

\* The minimum interval between key events the specification gives:
\* round(16 + ((100 - speed) / 100) * 84)
interval_ms(speed) == (1600 + (100 - speed) * 84 + 50) \div 100

\* C10: rate limiter.  Two Synthetic-Key dispatches with the same speed that
\* both return true emit one key event in total when they are called less
\* than interval_ms apart, and two when they are at least interval_ms apart.
C10_RateLimited ==
    \A d1 \in Returned, d2 \in Returned :
        (/\ d1 # d2
         /\ disp[d1].skCalls = 1 /\ disp[d2].skCalls = 1
         /\ disp[d1].skResult = "true" /\ disp[d2].skResult = "true"
         /\ disp[d1].kSpeed = disp[d2].kSpeed)
        => LET apart == Abs(disp[d1].skTime - disp[d2].skTime)
               emitted == disp[d1].keyDowns + disp[d2].keyDowns
           IN IF apart < interval_ms(disp[d1].kSpeed)
              THEN emitted = 1
              ELSE emitted = 2

=============================================================================
